---- MODULE Spec2Model ----
(***************************************************************************)
(* BorrowChecker of crates/wasmtime/src/region.rs: the guard that turns    *)
(* guest-supplied (i32 offset, i32 count) pairs into typed views of the    *)
(* guest's linear memory.                                                  *)
(*                                                                         *)
(* u32 and usize values do not fit TLC's integers, so an unsigned machine  *)
(* word is a little-endian tuple of five 16-bit limbs (80 bits: room for   *)
(* every usize and for the exact sums and products the claims speak of).   *)
(* i32 arguments are plain integers.                                       *)
(***************************************************************************)
EXTENDS Integers, Sequences, FiniteSets, TLC

\* ------------------------------------------------------------------------
\* Machine words
\* ------------------------------------------------------------------------
Limb == 2^16

LimbIdx == 1..5

\* The word of a small natural number (n < 2^31).
W(n) == <<n % Limb, n \div Limb, 0, 0, 0>>

Zero == W(0)

\* 2^k as a word.
Pow2W(k) == [i \in LimbIdx |-> IF i = (k \div 16) + 1 THEN 2^(k % 16) ELSE 0]

RECURSIVE Carry(_, _, _)
Carry(v, i, c) ==
    IF i > Len(v) THEN <<>>
    ELSE LET t == v[i] + c IN <<t % Limb>> \o Carry(v, i + 1, t \div Limb)

\* Exact sum of two words.
WAdd(a, b) == Carry([i \in LimbIdx |-> a[i] + b[i]], 1, 0)

\* Exact product of a word and a small factor (an element size).
WMul(a, k) == Carry([i \in LimbIdx |-> a[i] * k], 1, 0)

RECURSIVE WLeFrom(_, _, _)
WLeFrom(a, b, i) ==
    IF i = 0 THEN TRUE
    ELSE IF a[i] < b[i] THEN TRUE
    ELSE IF a[i] > b[i] THEN FALSE
    ELSE WLeFrom(a, b, i - 1)

\* a <= b on words.
WLe(a, b) == WLeFrom(a, b, 5)

WLt(a, b) == ~WLe(b, a)

\* A word that is less than 2^31, as an integer.
IsSmall(w) == w[3] = 0 /\ w[4] = 0 /\ w[5] = 0 /\ w[2] < 2^15

Small(w) == w[1] + Limb * w[2]

\* u32::MAX = 2^32 - 1.
U32_MAX == <<Limb - 1, Limb - 1, 0, 0, 0>>

\* i32::MAX and i32::MIN.
I32_MAX == (2^30 - 1) + 2^30

I32_MIN == (-I32_MAX) - 1

\* `x as u32` for an i32 x: two's complement reinterpretation.
as_u32(x) ==
    IF x >= 0 THEN W(x)
    ELSE LET j == (x + I32_MAX) + 1       \* x + 2^31, in 0 .. 2^31 - 1
         IN  <<j % Limb, (j \div Limb) + 2^15, 0, 0, 0>>

\* `x as usize` for an i32 x: sign extension to the host word.
i32_as_usize(x, bits) ==
    IF x >= 0 \/ bits = 32 THEN as_u32(x)
    ELSE LET u == as_u32(x) IN <<u[1], u[2], Limb - 1, Limb - 1, 0>>

\* `x as usize` for a u32 x: zero extension (hosts of 32 and 64 bits).
u32_as_usize(x) == x

\* isize::MAX of the host: no Rust object is larger.
isize_MAX(bits) ==
    IF bits = 32 THEN <<Limb - 1, 2^15 - 1, 0, 0, 0>>
    ELSE <<Limb - 1, Limb - 1, Limb - 1, 2^15 - 1, 0>>

\* The low 32 bits of a word: what wrapping u32 arithmetic keeps.
wrap32(w) == <<w[1], w[2], 0, 0, 0>>

\* u32::checked_mul by an element size and u32::checked_add.
checked_mul(a, k) ==
    LET p == WMul(a, k) IN [some |-> WLe(p, U32_MAX), val |-> p]

checked_add(a, b) ==
    LET s == WAdd(a, b) IN [some |-> WLe(s, U32_MAX), val |-> s]

\* ------------------------------------------------------------------------
\* Element types: size_of and align_of
\* ------------------------------------------------------------------------
u8   == [name |-> "u8",  size |-> 1, align |-> 1, le |-> FALSE]

u16  == [name |-> "u16", size |-> 2, align |-> 2, le |-> FALSE]

u32  == [name |-> "u32", size |-> 4, align |-> 4, le |-> FALSE]

u64  == [name |-> "u64", size |-> 8, align |-> 8, le |-> FALSE]

unit == [name |-> "()",  size |-> 0, align |-> 1, le |-> FALSE]

pair == [name |-> "(u8, u8)", size |-> 2, align |-> 1, le |-> FALSE]

\* Le<T>: the byte-aligned little-endian wrapper of a scalar T.
Le(T) == [name |-> T.name, size |-> T.size, align |-> 1, le |-> TRUE]

size_of(T) == T.size

align_of(T) == T.align

\* Types that implement AllBytesValid, i.e. that `slice` accepts.
AllBytesValid == {u8, u16, u32, u64, unit, pair, Le(u16), Le(u32)}

\* Types that implement Endian, i.e. that `load` accepts.
Endian == {u8, u16, u32, u64}

\* ------------------------------------------------------------------------
\* Results
\* ------------------------------------------------------------------------
Region(start, len) == [start |-> start, len |-> len]

NoRegion == Region(Zero, Zero)

\* A raw pointer: an allocation and a byte offset into it.
Ptr(alloc, off) == [alloc |-> alloc, off |-> off]

\* A fat pointer: address and element count.
View(ptr, len) == [ptr |-> ptr, len |-> len]

NoView == View(Ptr(0, Zero), Zero)

\* kind is "Ok", a GuestError ("PtrOverflow", "PtrOutOfBounds"), "Utf8Error",
\* or a fault: "panic" (failed assertion), "abort" (failed precondition check
\* of an unsafe std function) or "segv" (read of unmapped memory).
\* steps is the order of the checks that ran, made the Regions constructed.
Out(kind, region, view, value, steps, made) ==
    [kind |-> kind, region |-> region, view |-> view, value |-> value,
     steps |-> steps, made |-> made]

Errors == {"PtrOverflow", "PtrOutOfBounds", "Utf8Error"}

Faults == {"panic", "abort", "segv"}

\* ------------------------------------------------------------------------
\* Guest memory
\* ------------------------------------------------------------------------
\* A buffer is one allocation of len bytes; its first Len(head) bytes are
\* head and every later byte is zero.
Buffer(alloc, len, head) == [alloc |-> alloc, len |-> len, head |-> head]

ByteAt(mem, off) ==
    IF IsSmall(off) /\ Small(off) < Len(mem.head)
    THEN mem.head[Small(off) + 1] ELSE 0

\* The n bytes of mem from byte offset off on (n small).
ReadBytes(mem, off, n) == [i \in 1..n |-> ByteAt(mem, WAdd(off, W(i - 1)))]

\* ------------------------------------------------------------------------
\* BorrowChecker
\* ------------------------------------------------------------------------
new(data) == [ptr |-> Ptr(data.alloc, Zero), len |-> data.len]

\* Variants of validate_contains with a plausible slip each: a strict
\* comparison, the overflow check done on i32, and a wrapping addition.
validate_contains_strict(self, r) ==
    LET end == checked_add(r.start, r.len) IN
    IF ~end.some
    THEN Out("PtrOverflow", NoRegion, NoView, Zero, <<"checked_add">>, {})
    ELSE IF WLt(u32_as_usize(end.val), self.len)
    THEN Out("Ok", r, NoView, Zero, <<"checked_add", "compare">>, {})
    ELSE Out("PtrOutOfBounds", r, NoView, Zero, <<"checked_add", "compare">>, {})

validate_contains_i32(self, r) ==
    LET end == checked_add(r.start, r.len) IN
    IF ~WLe(end.val, W(I32_MAX))
    THEN Out("PtrOverflow", NoRegion, NoView, Zero, <<"checked_add">>, {})
    ELSE IF WLe(u32_as_usize(end.val), self.len)
    THEN Out("Ok", r, NoView, Zero, <<"checked_add", "compare">>, {})
    ELSE Out("PtrOutOfBounds", r, NoView, Zero, <<"checked_add", "compare">>, {})

validate_contains_wrapping(self, r) ==
    LET end == wrap32(WAdd(r.start, r.len)) IN
    IF WLe(u32_as_usize(end), self.len)
    THEN Out("Ok", r, NoView, Zero, <<"wrapping_add", "compare">>, {})
    ELSE Out("PtrOutOfBounds", r, NoView, Zero, <<"wrapping_add", "compare">>, {})

validate_contains(self, r) ==
    LET end == checked_add(r.start, r.len) IN
    IF ~end.some
    THEN Out("PtrOverflow", NoRegion, NoView, Zero, <<"checked_add">>, {})
    ELSE IF WLe(u32_as_usize(end.val), self.len)
    THEN Out("Ok", r, NoView, Zero, <<"checked_add", "compare">>, {})
    ELSE Out("PtrOutOfBounds", r, NoView, Zero, <<"checked_add", "compare">>, {})

\* Variants of region: the count taken as the byte length, and a wrapping
\* multiplication.
region_unscaled(self, T, ptr, len) ==
    IF align_of(T) # 1
    THEN Out("panic", NoRegion, NoView, Zero, <<"assert_eq">>, {})
    ELSE LET r == Region(as_u32(ptr), as_u32(len))
             v == validate_contains(self, r)
         IN  [v EXCEPT !.steps = <<"assert_eq", "Region", "validate_contains">>
                                    \o v.steps,
                       !.made = {r}]

region_wrapping(self, T, ptr, len) ==
    IF align_of(T) # 1
    THEN Out("panic", NoRegion, NoView, Zero, <<"assert_eq">>, {})
    ELSE LET r == Region(as_u32(ptr), wrap32(WMul(as_u32(len), size_of(T))))
             v == validate_contains(self, r)
         IN  [v EXCEPT !.steps = <<"assert_eq", "wrapping_mul", "Region",
                                    "validate_contains">> \o v.steps,
                       !.made = {r}]

region(self, T, ptr, len) ==
    IF align_of(T) # 1
    THEN Out("panic", NoRegion, NoView, Zero, <<"assert_eq">>, {})
    ELSE LET m == checked_mul(as_u32(len), size_of(T)) IN
         IF ~m.some
         THEN Out("PtrOverflow", NoRegion, NoView, Zero,
                  <<"assert_eq", "checked_mul">>, {})
         ELSE LET r == Region(as_u32(ptr), m.val)
                  v == validate_contains(self, r)
              IN  [v EXCEPT !.steps = <<"assert_eq", "checked_mul", "Region",
                                        "validate_contains">> \o v.steps,
                            !.made = {r}]

\* std::slice::from_raw_parts is sound when the n elements lie inside the
\* allocation p points into and take at most isize::MAX bytes.
raw_parts_sound(mem, bits, p, n, size) ==
    /\ p.alloc = mem.alloc
    /\ WLe(WAdd(p.off, WMul(n, size)), mem.len)
    /\ WLe(WMul(n, size), isize_MAX(bits))

\* Outside that it is undefined behaviour: a build that checks the
\* preconditions aborts ("abort"), any other hands out the fat pointer as is.
from_raw_parts(mem, bits, p, n, size, ub) ==
    IF raw_parts_sound(mem, bits, p, n, size) \/ ub # "abort"
    THEN [kind |-> "Ok", view |-> View(p, n)]
    ELSE [kind |-> "abort", view |-> NoView]

ptr_add(p, k) == Ptr(p.alloc, WAdd(p.off, k))

get_slice(self, mem, bits, T, ptr, len, ub) ==
    LET rr == region(self, T, ptr, len) IN
    IF rr.kind # "Ok" THEN rr
    ELSE LET s == from_raw_parts(mem, bits,
                      ptr_add(self.ptr, u32_as_usize(rr.region.start)),
                      i32_as_usize(len, bits), size_of(T), ub)
         IN  [rr EXCEPT !.kind = s.kind, !.view = s.view,
                        !.steps = rr.steps \o <<"from_raw_parts">>]

slice(self, mem, bits, T, ptr, len, ub) ==
    get_slice(self, mem, bits, T, ptr, len, ub)

\* Variant of raw: the length is lost.
raw_empty(self) == View(self.ptr, Zero)

raw(self) == View(self.ptr, self.len)

\* ------------------------------------------------------------------------
\* std::str::from_utf8
\* ------------------------------------------------------------------------
RECURSIVE utf8_from(_, _)
utf8_from(b, i) ==
    IF i > Len(b) THEN TRUE
    ELSE LET x == b[i]
             in(j, lo, hi) == j <= Len(b) /\ b[j] >= lo /\ b[j] <= hi
             cont(j) == in(j, 128, 191)
         IN  CASE x < 128 -> utf8_from(b, i + 1)
               [] x >= 194 /\ x <= 223 -> cont(i + 1) /\ utf8_from(b, i + 2)
               [] x = 224 -> in(i + 1, 160, 191) /\ cont(i + 2) /\ utf8_from(b, i + 3)
               [] (x >= 225 /\ x <= 236) \/ x = 238 \/ x = 239 ->
                      cont(i + 1) /\ cont(i + 2) /\ utf8_from(b, i + 3)
               [] x = 237 -> in(i + 1, 128, 159) /\ cont(i + 2) /\ utf8_from(b, i + 3)
               [] x = 240 -> in(i + 1, 144, 191) /\ cont(i + 2) /\ cont(i + 3)
                             /\ utf8_from(b, i + 4)
               [] x >= 241 /\ x <= 243 -> cont(i + 1) /\ cont(i + 2) /\ cont(i + 3)
                             /\ utf8_from(b, i + 4)
               [] x = 244 -> in(i + 1, 128, 143) /\ cont(i + 2) /\ cont(i + 3)
                             /\ utf8_from(b, i + 4)
               [] OTHER -> FALSE

Utf8Valid(b) == utf8_from(b, 1)

\* The bytes of mem in [off, off + n), cut at the end of the allocation, with
\* the run of zero bytes after head shortened to one byte (a run of NULs is
\* valid UTF-8 exactly when one NUL is).
StrBytes(mem, off, n) ==
    LET h    == Len(mem.head)
        e0   == WAdd(off, n)
        endw == IF WLe(e0, mem.len) THEN e0 ELSE mem.len
        o    == IF IsSmall(off) /\ Small(off) < h THEN Small(off) ELSE h
        e    == IF IsSmall(endw) /\ Small(endw) < h THEN Small(endw) ELSE h
    IN  SubSeq(mem.head, o + 1, e)
          \o (IF WLt(W(h), endw) /\ WLt(off, endw) THEN <<0>> ELSE <<>>)

\* from_utf8 scans the view front to back.  Over a view that runs past the
\* allocation it stops at the first malformed byte of the buffer if there is
\* one, and otherwise reads on into whatever follows the buffer: mapped
\* bytes that are no text, or an unmapped page.
from_utf8(mem, bits, v, ub) ==
    IF ~Utf8Valid(StrBytes(mem, v.ptr.off, v.len)) THEN "Utf8Error"
    ELSE IF raw_parts_sound(mem, bits, v.ptr, v.len, 1) THEN "Ok"
    ELSE IF ub = "unmapped" THEN "segv" ELSE "Utf8Error"

slice_str(self, mem, bits, ptr, len, ub) ==
    LET s == slice(self, mem, bits, u8, ptr, len, ub) IN
    IF s.kind # "Ok" THEN s
    ELSE LET k == from_utf8(mem, bits, s.view, ub) IN
         [s EXCEPT !.kind = k,
                   !.view = IF k = "Ok" THEN s.view ELSE NoView,
                   !.steps = s.steps \o <<"from_utf8">>]

\* ------------------------------------------------------------------------
\* Le<T>::get: little-endian bytes to the native scalar
\* ------------------------------------------------------------------------
Reverse(q) == [i \in 1..Len(q) |-> q[Len(q) + 1 - i]]

\* The word whose little-endian byte sequence is b.
FromBytesLE(b) ==
    [i \in LimbIdx |->
        (IF 2 * i - 1 <= Len(b) THEN b[2 * i - 1] ELSE 0)
        + 256 * (IF 2 * i <= Len(b) THEN b[2 * i] ELSE 0)]

ToBytesLE(w, size) ==
    [j \in 1..size |->
        (w[(j + 1) \div 2] \div (IF j % 2 = 1 THEN 1 ELSE 256)) % 256]

\* What the host reads when it takes the bytes b as a native scalar.
native_read(b, endian) ==
    FromBytesLE(IF endian = "little" THEN b ELSE Reverse(b))

swap_bytes(v, size) == FromBytesLE(Reverse(ToBytesLE(v, size)))

\* T::from_le: the identity on a little-endian host, a byte swap otherwise.
from_le(v, size, endian) ==
    IF endian = "little" THEN v ELSE swap_bytes(v, size)

Le_get(b, endian) == from_le(native_read(b, endian), Len(b), endian)

\* Variant of load: the element is read as a native T, not through Le<T>.
load_native(self, mem, host, T, offset, ub) ==
    LET g == get_slice(self, mem, host.bits, Le(T), offset, 1, ub) IN
    IF g.kind # "Ok" THEN g
    ELSE [g EXCEPT !.view = NoView,
                   !.value = native_read(ReadBytes(mem, g.view.ptr.off, size_of(T)),
                                         host.endian),
                   !.steps = g.steps \o <<"index">>]

load(self, mem, host, T, offset, ub) ==
    LET g == get_slice(self, mem, host.bits, Le(T), offset, 1, ub) IN
    IF g.kind # "Ok" THEN g
    ELSE IF g.view.len = Zero
    THEN [g EXCEPT !.kind = "panic", !.view = NoView,
                   !.steps = g.steps \o <<"index">>]
    ELSE [g EXCEPT !.view = NoView,
                   !.value = Le_get(ReadBytes(mem, g.view.ptr.off, size_of(T)),
                                    host.endian),
                   !.steps = g.steps \o <<"index", "get">>]

\* ------------------------------------------------------------------------
\* The state machine: one checker over one buffer, and the calls made on it
\* ------------------------------------------------------------------------
VARIABLES host, data, bc, last

vars == <<host, data, bc, last>>

\* Largest of the small offsets and counts tried.
MaxSmall == 5

\* Offsets and counts a guest passes: small ones and the ends of i32.
I32s == (0..MaxSmall) \cup {I32_MIN, I32_MIN + 1, -2, -1, I32_MAX - 1, I32_MAX}

Head01 == <<1, 0, 0, 0>>

\* "A", "e-acute" (C3 A9), and a stray continuation byte.
HeadText == <<65, 195, 169, 128>>

Hosts == [bits : {32, 64}, endian : {"little", "big"}]

\* Buffers a host can hold: at most isize::MAX bytes, so the lengths from
\* 2^31 on (up to the 4 GiB of a full 32-bit linear memory) need 64 bits.
Buffers(h) ==
    {Buffer(1, W(Len(hd)), hd) : hd \in {<<>>, Head01, HeadText}}
    \cup (IF h.bits = 64
          THEN {Buffer(1, l, hd) : l \in {Pow2W(31), U32_MAX, Pow2W(32)},
                                   hd \in {Head01, HeadText}}
          ELSE {})

\* What undefined behaviour turns into: a build with precondition checks
\* aborts; one without reads past the buffer into garbage or unmapped pages.
UBs == {"abort", "garbage", "unmapped"}

Call(op, T, ptr, len, out) ==
    [op |-> op, T |-> T, ptr |-> ptr, len |-> len, out |-> out]

\* No call has returned a result that the caller has yet to take.
Idle == Call("none", unit, 0, 0, Out("Ok", NoRegion, NoView, Zero, <<>>, {}))

Init ==
    /\ host \in Hosts
    /\ data \in Buffers(host)
    /\ bc = new(data)
    /\ last = Idle

\* A new access window: the checker is dropped and one is made over the
\* buffer as it is then.
New ==
    /\ last = Idle
    /\ data' \in Buffers(host)
    /\ bc' = new(data')
    /\ UNCHANGED <<host, last>>

Slice ==
    /\ last = Idle
    /\ \E T \in AllBytesValid, ptr \in I32s, len \in I32s, ub \in UBs :
          last' = Call("slice", T, ptr, len,
                       slice(bc, data, host.bits, T, ptr, len, ub))
    /\ UNCHANGED <<host, data, bc>>

SliceStr ==
    /\ last = Idle
    /\ \E ptr \in I32s, len \in I32s, ub \in UBs :
          last' = Call("slice_str", u8, ptr, len,
                       slice_str(bc, data, host.bits, ptr, len, ub))
    /\ UNCHANGED <<host, data, bc>>

Load ==
    /\ last = Idle
    /\ \E T \in Endian, offset \in I32s, ub \in UBs :
          last' = Call("load", T, offset, 1,
                       load(bc, data, host, T, offset, ub))
    /\ UNCHANGED <<host, data, bc>>

Raw ==
    /\ last = Idle
    /\ last' = Call("raw", u8, 0, 0,
                    Out("Ok", NoRegion, raw(bc), Zero, <<>>, {}))
    /\ UNCHANGED <<host, data, bc>>

\* The call is synchronous: its result goes to the caller, which takes it
\* (a view borrowed for 'a, a scalar, or an error to trap with) before it
\* makes its next call on the checker.
Return ==
    /\ last # Idle
    /\ last' = Idle
    /\ UNCHANGED <<host, data, bc>>

Next == New \/ Slice \/ SliceStr \/ Load \/ Raw \/ Return

Spec == Init /\ [][Next]_vars

\* ------------------------------------------------------------------------
\* The request of the call that has just returned, as the code reads it
\* ------------------------------------------------------------------------
\* The element type region computes with (load goes through Le<T>).
ElemT == IF last.op = "load" THEN Le(last.T) ELSE last.T

\* offset and count as unsigned 32-bit values, and the exact (unbounded)
\* byte length count * size_of(T) and end offset + count * size_of(T).
Off == as_u32(last.ptr)

Cnt == as_u32(last.len)

ByteLen == WMul(Cnt, size_of(ElemT))

End == WAdd(Off, ByteLen)

Checked == last.op \in {"slice", "slice_str", "load"}

\* The view that starts at byte offset of the buffer and has count elements.
ViewAt(off, cnt) == View(Ptr(data.alloc, off), cnt)

\* The bytes seen through view v are the buffer's bytes from offset on (the
\* bytes of head are compared; all later bytes are zero).
SameBytes(v) ==
    /\ WMul(v.len, size_of(ElemT)) = ByteLen
    /\ \A i \in 0..Len(data.head) :
          WLt(W(i), ByteLen) =>
             ByteAt(data, WAdd(v.ptr.off, W(i))) = ByteAt(data, WAdd(Off, W(i)))

SliceGivesView ==
    /\ last.out.kind = "Ok"
    /\ last.out.view = ViewAt(Off, Cnt)
    /\ SameBytes(last.out.view)

\* C1 as stated: for an element type of alignment 1, slice succeeds whenever
\* offset + count * size_of(T) <= buffer length, and the view has count
\* elements, starts at byte offset and shows the buffer's bytes.
C1_Original ==
    (last.op = "slice" /\ align_of(ElemT) = 1 /\ WLe(End, data.len))
        => SliceGivesView

\* C1 (amended): the same for every count >= 0 and every offset read as an
\* unsigned 32-bit value such that offset + count * size_of(T) is at most the
\* buffer length and at most 2^32 - 1.
C1_SliceInBounds ==
    (/\ last.op = "slice" /\ align_of(ElemT) = 1 /\ last.len >= 0
     /\ WLe(End, U32_MAX) /\ WLe(End, data.len))
        => SliceGivesView

C1_Witness ==
    /\ last.op = "slice" /\ last.out.kind = "Ok"
    /\ last.ptr > 0 /\ last.len > 0 /\ size_of(ElemT) > 0
    /\ End = data.len

\* C2: when neither count * size_of(T) nor offset + count * size_of(T)
\* overflows 32 bits and the end lies past the buffer, slice fails with
\* PtrOutOfBounds carrying Region{start: offset, len: count * size_of(T)}
\* and returns no view (T of alignment 1, offset and count as u32).
C2_OutOfBounds ==
    (/\ last.op = "slice" /\ align_of(ElemT) = 1
     /\ WLe(ByteLen, U32_MAX) /\ WLe(End, U32_MAX) /\ WLt(data.len, End))
        => /\ last.out.kind = "PtrOutOfBounds"
           /\ last.out.region = Region(Off, ByteLen)
           /\ last.out.view = NoView

C2_Witness ==
    /\ last.op = "slice" /\ last.T = u8 /\ last.ptr = 2 /\ last.len = 3
    /\ data.len = W(4)
    /\ last.out.kind = "PtrOutOfBounds"
    /\ last.out.region = Region(W(2), W(3))

\* C3: when count * size_of(T) exceeds 32 bits the region computation fails
\* with PtrOverflow and the bounds validation is never run, whatever the
\* offset and the buffer length (T of alignment 1, count as u32).
C3_MulOverflow ==
    (Checked /\ align_of(ElemT) = 1 /\ ~WLe(ByteLen, U32_MAX))
        => /\ last.out.kind = "PtrOverflow"
           /\ \A i \in 1..Len(last.out.steps) :
                 last.out.steps[i] \notin {"validate_contains", "checked_add",
                                           "wrapping_add", "compare"}
           /\ last.out.made = {}

C3_Witness ==
    /\ last.op = "slice" /\ align_of(ElemT) = 1 /\ last.len > 0
    /\ ~WLe(ByteLen, U32_MAX)
    /\ WLe(Off, data.len)
    /\ last.out.kind = "PtrOverflow"

IsC4Call ==
    /\ last.op = "slice" /\ last.T = u8
    /\ last.ptr = I32_MAX /\ last.len = 2
    /\ data.len = W(4)

\* C4 as stated: on a 4-byte buffer slice::<u8>(i32::MAX, 2) fails with
\* PtrOverflow.
C4_Original == IsC4Call => last.out.kind = "PtrOverflow"

\* C4 (amended): on a 4-byte buffer slice::<u8>(i32::MAX, 2) fails with
\* PtrOutOfBounds(Region{start: 2^31 - 1, len: 2}), not with PtrOverflow:
\* 2^31 + 1 fits 32 unsigned bits.
C4_IsOutOfBounds ==
    IsC4Call => /\ last.out.kind = "PtrOutOfBounds"
                /\ last.out.region = Region(W(I32_MAX), W(2))

C4_Witness == IsC4Call /\ last.out.kind # "Ok"

\* C5: every call of slice, slice_str or load, for every i32 offset and
\* count and every AllBytesValid element type, returns a view, a scalar or
\* a structured error; none ends in a fault.
C5_NoFault == Checked => last.out.kind \in {"Ok"} \cup Errors

\* C6: slice_str checks bounds first and encoding second: Utf8Error exactly
\* when the range passes the overflow and containment checks and its bytes
\* are not UTF-8; PtrOverflow or PtrOutOfBounds when the range fails them;
\* otherwise the text of exactly those bytes.
C6_SliceStr ==
    last.op = "slice_str" =>
        LET passes == WLe(End, U32_MAX) /\ WLe(End, data.len)
            valid  == Utf8Valid(StrBytes(data, Off, Cnt))
        IN  /\ (last.out.kind = "Utf8Error") <=> (passes /\ ~valid)
            /\ ~passes => last.out.kind \in {"PtrOverflow", "PtrOutOfBounds"}
            /\ (passes /\ valid) =>
                  (last.out.kind = "Ok" /\ last.out.view = ViewAt(Off, Cnt))

\* What slice::<Le<T>>(offset, 1) followed by decoding its element gives.
SliceThenDecode(ub) ==
    LET s == slice(bc, data, host.bits, Le(last.T), last.ptr, 1, ub) IN
    IF s.kind # "Ok" THEN [kind |-> s.kind, region |-> s.region, value |-> Zero]
    ELSE [kind |-> "Ok", region |-> s.region,
          value |-> FromBytesLE(ReadBytes(data, s.view.ptr.off, size_of(last.T)))]

LoadAsSlice ==
    /\ \A ub \in UBs :
          [kind |-> last.out.kind, region |-> last.out.region,
           value |-> last.out.value] = SliceThenDecode(ub)
    /\ \A e \in {"little", "big"}, ub \in UBs :
          load(bc, data, [host EXCEPT !.endian = e], last.T, last.ptr, ub).value
              = last.out.value

LoadReturns ==
    /\ last.out.kind = "Ok"
    /\ last.out.value = FromBytesLE(ReadBytes(data, Off, size_of(last.T)))

\* C7 as stated: load::<T>(offset) is slice::<Le<T>>(offset, 1) followed by
\* decoding; it returns the value stored little-endian at offset whenever
\* offset + size_of(T) <= buffer length, on either host byte order, and
\* otherwise fails with PtrOverflow or PtrOutOfBounds as slice does.
C7_Original ==
    last.op = "load" =>
        /\ LoadAsSlice
        /\ IF WLe(End, data.len) THEN LoadReturns
           ELSE last.out.kind \in {"PtrOverflow", "PtrOutOfBounds"}

\* C7 (amended): the same, with the value returned whenever
\* offset + size_of(T), offset read as u32, is at most the buffer length and
\* at most 2^32 - 1.
C7_Load ==
    last.op = "load" =>
        /\ LoadAsSlice
        /\ IF WLe(End, U32_MAX) /\ WLe(End, data.len) THEN LoadReturns
           ELSE last.out.kind \in {"PtrOverflow", "PtrOutOfBounds"}

C7_Witness ==
    /\ last.op = "load" /\ last.T = u32 /\ last.ptr = 0
    /\ host.endian = "big"
    /\ data.head = Head01
    /\ last.out.kind = "Ok" /\ last.out.value = W(1)

RegionFits(r) == WLe(WAdd(r.start, r.len), U32_MAX)

\* C9 as stated: every Region constructed in any step of a call satisfies
\* start + len <= 2^32 - 1, and a request whose start + len overflows
\* yields PtrOverflow.
C9_Original ==
    (Checked /\ align_of(ElemT) = 1) =>
        /\ \A r \in last.out.made : RegionFits(r)
        /\ ~WLe(End, U32_MAX) => last.out.kind = "PtrOverflow"

\* C9 (amended): for T of alignment 1, every Region that leaves region,
\* returned or carried by PtrOutOfBounds, satisfies start + len <= 2^32 - 1,
\* and a request whose start + len overflows yields PtrOverflow and hands
\* out no Region; the Region is constructed before start + len is checked.
C9_RegionFits ==
    (Checked /\ align_of(ElemT) = 1) =>
        /\ RegionFits(last.out.region)
        /\ last.out.kind \in {"Ok", "PtrOutOfBounds"} =>
              last.out.region \in last.out.made
        /\ ~WLe(End, U32_MAX) =>
              (last.out.kind = "PtrOverflow" /\ last.out.region = NoRegion)

C9_Witness ==
    /\ Checked /\ WLe(ByteLen, U32_MAX) /\ ~WLe(End, U32_MAX)
    /\ last.out.kind = "PtrOverflow"
    /\ \E r \in last.out.made : ~RegionFits(r)

\* C10: every view slice or load hands out lies inside the buffer: with n
\* the i32 count converted to usize and start the offset as u32,
\* start + n * size_of(T) <= buffer length and n * size_of(T) is the len of
\* the validated Region.
C10_ViewInBuffer ==
    (last.op \in {"slice", "load"} /\ last.out.kind = "Ok") =>
        LET n == i32_as_usize(last.len, host.bits) IN
        /\ last.op = "slice" => last.out.view.len = n
        /\ WLe(WAdd(Off, WMul(n, size_of(ElemT))), data.len)
        /\ WMul(n, size_of(ElemT)) = last.out.region.len

====
